---- MODULE Spec2Model ----
(***************************************************************************)
(* A model of emerge's Python language parser                              *)
(* (src/emerge/languages/pyparser.py): the per-file pipeline of            *)
(* PythonParser.generate_file_result_from_analysis and                     *)
(* PythonParser._add_imports_to_result, and the two entity-level           *)
(* operations that are not implemented.                                    *)
(*                                                                         *)
(* Text is modelled at the character level: a string is a sequence of      *)
(* one-character strings, a token list is a sequence of such sequences.    *)
(***************************************************************************)
EXTENDS Integers, Sequences, FiniteSets, TLC

VARIABLES
    results,                    \* PythonParser._results: unique name -> FileResult
    hits, misses,               \* analysis.statistics: PARSING_HITS, PARSING_MISSES
    ignore_list,                \* analysis: the configured ignore list
    pc,                         \* position inside generate_file_result_from_analysis
    file_name,                  \* the file being processed (its unique name)
    file_content,               \* the raw content of the file being processed
    file_result,                \* the FileResult under construction
    filtered_list_no_comments,  \* local of _add_imports_to_result
    source_import_lines,        \* local of _add_imports_to_result
    idx,                        \* position of the `for line in source_import_lines` loop
    parsing_result,             \* locals of the last loop iteration
    call, raised,               \* the operation last invoked, the exception that escaped it
    hits0, misses0,             \* history: the counters when the current file was started
    words_left                  \* input that is left for the run

vars == <<results, hits, misses, ignore_list, pc, file_name, file_content,
          file_result, filtered_list_no_comments, source_import_lines, idx,
          parsing_result, call, raised, hits0, misses0, words_left>>

----------------------------------------------------------------------------
(* Bounds of the model. *)

\* the input a run reads, over all its files: one unit a word, one unit a file
MaxInput == 5

----------------------------------------------------------------------------
(* PythonParsingKeyword *)

IMPORT == <<"i", "m", "p", "o", "r", "t">>
FROM == <<"f", "r", "o", "m">>
INLINE_COMMENT == <<"#">>
BLOCK_COMMENT == <<"\"", "\"", "\"">>
NEWLINE == <<"\n">>
EMPTY == <<>>
BLANK == <<" ">>

\* PythonParser._token_mappings: each of these characters c is mapped to " c "
token_mappings ==
    {":", ";", "{", "}", "(", ")", "[", "]", "?", "!", ",", "<", ">", "\""}

----------------------------------------------------------------------------
(* Character classes of the grammar. *)

alphas ==
    {"a", "b", "c", "d", "e", "f", "g", "h", "i", "j", "k", "l", "m",
     "n", "o", "p", "q", "r", "s", "t", "u", "v", "w", "x", "y", "z",
     "A", "B", "C", "D", "E", "F", "G", "H", "I", "J", "K", "L", "M",
     "N", "O", "P", "Q", "R", "S", "T", "U", "V", "W", "X", "Y", "Z"}

nums == {"0", "1", "2", "3", "4", "5", "6", "7", "8", "9"}

alphanums == alphas \cup nums

\* pyparsing's Keyword.DEFAULT_KEYWORD_CHARS
identChars == alphanums \cup {"_", "$"}

\* the characters of valid_name: alphanums + DOT + UNDERSCORE + DASH + SLASH
valid_name_chars == alphanums \cup {".", "_", "-", "/"}

\* pyparsing's default whitespace, the part of it the inputs can hold
whitespace == {" ", "\n"}

----------------------------------------------------------------------------
(* Strings. *)

RECURSIVE Flatten(_)
\* the concatenation of a sequence of strings
Flatten(ss) ==
    IF ss = <<>> THEN <<>> ELSE Head(ss) \o Flatten(Tail(ss))

\* Python's `needle in hay` on strings
Contains(hay, needle) ==
    \E i \in 1..(Len(hay) - Len(needle) + 1) :
        SubSeq(hay, i, i + Len(needle) - 1) = needle

\* Python's `x in list`
InList(x, list) == \E k \in 1..Len(list) : list[k] = x

\* Python's s[:-1]
DropLast(s) == IF s = <<>> THEN <<>> ELSE SubSeq(s, 1, Len(s) - 1)

----------------------------------------------------------------------------
(* Tokenizer/Normalizer: ParsingMixin.                                     *)
(* preprocess_file_content_and_generate_token_list_by_mapping              *)

\* every mapped character is replaced by its padded replacement
ApplyMapping(content, mapping) ==
    Flatten([i \in 1..Len(content) |->
                IF content[i] \in mapping
                THEN <<" ", content[i], " ">>
                ELSE <<content[i]>>])

RECURSIVE SplitFrom(_, _, _, _)
\* the maximal runs of non-whitespace of s from position i on, and its newlines
SplitFrom(s, i, word, tokens) ==
    LET flushed == IF word = EMPTY THEN tokens ELSE Append(tokens, word)
    IN  IF i > Len(s) THEN flushed
        ELSE IF s[i] = "\n" THEN SplitFrom(s, i + 1, EMPTY, Append(flushed, NEWLINE))
        ELSE IF s[i] \in whitespace THEN SplitFrom(s, i + 1, EMPTY, flushed)
        ELSE SplitFrom(s, i + 1, Append(word, s[i]), tokens)

preprocess_file_content_and_generate_token_list_by_mapping(content, mapping) ==
    SplitFrom(ApplyMapping(content, mapping), 1, EMPTY, <<>>)

----------------------------------------------------------------------------
(* Comment Filter: ParsingMixin._filter_source_tokens_without_comments    *)

RECURSIVE FilterFrom(_, _, _, _, _, _, _)
\* mode: "code", "inline" (to the next newline), "block" (to the closing marker)
FilterFrom(words, k, mode, kept, line_comment, start_block, stop_block) ==
    IF k > Len(words) THEN kept
    ELSE LET w == words[k]
             go(m, out) ==
                 FilterFrom(words, k + 1, m, out, line_comment, start_block, stop_block)
         IN  CASE mode = "inline" ->
                    IF w = NEWLINE THEN go("code", Append(kept, w)) ELSE go("inline", kept)
               [] mode = "block" ->
                    IF w = stop_block THEN go("code", kept) ELSE go("block", kept)
               [] OTHER ->
                    IF w = line_comment THEN go("inline", kept)
                    ELSE IF w = start_block THEN go("block", kept)
                    ELSE go("code", Append(kept, w))

\* the tokens that are left, as one string: joined by single blanks
JoinWords(words) ==
    Flatten([k \in 1..Len(words) |->
                IF k < Len(words) THEN words[k] \o BLANK ELSE words[k]])

filter_source_tokens_without_comments(words, line_comment, start_block, stop_block) ==
    JoinWords(FilterFrom(words, 1, "code", <<>>, line_comment, start_block, stop_block))

----------------------------------------------------------------------------
(* Line Reconstructor: the first loop of _add_imports_to_result           *)

\* a variant of RelevantLine that does not look at the lines retained so far
RelevantLineAgain(line, lines) ==
    /\ line # EMPTY
    /\ Contains(line, IMPORT)

\* a variant of RelevantLine that wants `import` as a token of the line
RelevantLineWholeToken(line, lines) ==
    /\ line # EMPTY
    /\ InList(IMPORT, SplitFrom(line, 1, EMPTY, <<>>))
    /\ ~InList(line, lines)

\* `line is not EMPTY and IMPORT in line and line not in source_import_lines`
\* (`is not` compares identities; CPython keeps one object for the empty string and
\* one for each one-character string, so that here it is the comparison of values)
RelevantLine(line, lines) ==
    /\ line # EMPTY
    /\ Contains(line, IMPORT)
    /\ ~InList(line, lines)

\* a variant of AfterLastWord that retains the line under construction as well
AfterLastWordFlushed(line, lines) ==
    IF DropLast(line) # EMPTY /\ Contains(line, IMPORT) /\ ~InList(DropLast(line), lines)
    THEN Append(lines, DropLast(line))
    ELSE lines

\* the loop is over: the line under construction is dropped
AfterLastWord(line, lines) == lines

RECURSIVE ReconstructFrom(_, _, _, _)
ReconstructFrom(words, k, line, lines) ==
    IF k > Len(words) THEN AfterLastWord(line, lines)
    ELSE IF words[k] # NEWLINE
         THEN ReconstructFrom(words, k + 1, line \o words[k] \o BLANK, lines)
         ELSE LET l == DropLast(line)
              IN  ReconstructFrom(words, k + 1, EMPTY,
                                  IF RelevantLine(l, lines) THEN Append(lines, l) ELSE lines)

SourceImportLines(words) == ReconstructFrom(words, 1, EMPTY, <<>>)

----------------------------------------------------------------------------
(* Import Grammar Matcher: expression_to_match.parseString(line)          *)

RECURSIVE SkipWhitespace(_, _)
\* pyparsing's preParse: the first position from loc on that holds no whitespace
SkipWhitespace(s, loc) ==
    IF loc <= Len(s) /\ s[loc] \in whitespace THEN SkipWhitespace(s, loc + 1) ELSE loc

\* pp.Keyword(kw) at loc: the text, not followed and not preceded by a keyword character
KeywordAt(s, loc, kw) ==
    /\ loc + Len(kw) - 1 <= Len(s)
    /\ SubSeq(s, loc, loc + Len(kw) - 1) = kw
    /\ (loc + Len(kw) > Len(s) \/ s[loc + Len(kw)] \notin identChars)
    /\ (loc = 1 \/ s[loc - 1] \notin identChars)

RECURSIVE WordEnd(_, _)
\* pp.Word(valid_name_chars) at loc: the last position of the run (loc - 1: no run)
WordEnd(s, loc) ==
    IF loc <= Len(s) /\ s[loc] \in valid_name_chars THEN WordEnd(s, loc + 1) ELSE loc - 1

\* a variant of import_entity_name whose name runs on over the blanks of the line
import_entity_name_with_blanks(s, loc) ==
    IF loc <= Len(s) /\ s[loc] \in valid_name_chars THEN SubSeq(s, loc, Len(s)) ELSE EMPTY

\* valid_name.setResultsName(IMPORT_ENTITY_NAME): the run of name characters at loc
import_entity_name(s, loc) == SubSeq(s, loc, WordEnd(s, loc))

\* pp.Optional(pp.FollowedBy(pp.Keyword(IMPORT))): looks ahead, consumes nothing, never fails
OptionalFollowedByImport(s, loc) ==
    KeywordAt(s, SkipWhitespace(s, loc), IMPORT) \/ TRUE

\* (Keyword(IMPORT) | Keyword(FROM)) + valid_name + Optional(FollowedBy(Keyword(IMPORT)))
ParseString(line) ==
    LET loc0 == SkipWhitespace(line, 1)
        kw   == IF KeywordAt(line, loc0, IMPORT) THEN IMPORT
                ELSE IF KeywordAt(line, loc0, FROM) THEN FROM
                ELSE EMPTY
        loc1 == SkipWhitespace(line, loc0 + Len(kw))
        name == import_entity_name(line, loc1)
    IN  IF kw # EMPTY /\ name # EMPTY /\ OptionalFollowedByImport(line, loc1 + Len(name))
        THEN [matched |-> TRUE, dependency |-> name]
        ELSE [matched |-> FALSE, dependency |-> EMPTY]

----------------------------------------------------------------------------
(* Ignore-List Filter: AbstractParser._is_dependency_in_ignore_list       *)

is_dependency_in_ignore_list(dependency, ignored) ==
    \E k \in 1..Len(ignored) : Contains(dependency, ignored[k])

----------------------------------------------------------------------------
(* Inputs. *)

\* the words a file content is made of
Words ==
    { IMPORT \o BLANK,               \* "import "
      FROM \o BLANK,                 \* "from "
      <<"x">> \o NEWLINE,            \* a name that ends a line
      <<"a", ".", "b">> \o BLANK,    \* a dotted name
      <<"a", ".", "b">> \o NEWLINE,  \* a dotted name that ends a line
      INLINE_COMMENT \o BLANK,       \* "# "
      BLOCK_COMMENT \o BLANK,        \* '""" '
      IMPORT \o <<"x">> \o NEWLINE } \* "importx": `import` inside a longer token

\* the file contents of at most n words
Contents(n) == UNION { [1..k -> Words] : k \in 0..n }

\* analysis.source_directory and the files under it, as path components
source_directory == <<"p", "src">>
FullFilePaths == { source_directory \o <<"a.py">>, source_directory \o <<"b.py">> }

\* the configured ignore lists: none, or every dependency that contains "x"
IgnoreLists == { <<>>, << <<"x">> >> }

\* the entities create_unique_entity_name is called with
Entities == { "e1", "e2" }

----------------------------------------------------------------------------
(* State. *)

NoFileResult ==
    [unique_name |-> <<>>, module_name |-> "", scanned_tokens |-> <<>>,
     scanned_import_dependencies |-> <<>>]

NoParsingResult ==
    [line |-> EMPTY, matched |-> FALSE, dependency |-> EMPTY, ignored |-> FALSE]

Init ==
    /\ results = <<>>
    /\ hits = 0
    /\ misses = 0
    /\ ignore_list \in IgnoreLists
    /\ pc = "IDLE"
    /\ file_name = <<>>
    /\ file_content = EMPTY
    /\ file_result = NoFileResult
    /\ filtered_list_no_comments = <<>>
    /\ source_import_lines = <<>>
    /\ idx = 1
    /\ parsing_result = NoParsingResult
    /\ call = "none"
    /\ raised = "none"
    /\ hits0 = 0
    /\ misses0 = 0
    /\ words_left = MaxInput

\* no call is in progress
Idle == pc \in {"IDLE", "REGISTERED"}

----------------------------------------------------------------------------
(* generate_file_result_from_analysis *)

\* full_file_path.replace(parent_analysis_source_path, ""), on path components
relative_file_path_to_analysis(full_file_path) ==
    LET parent == DropLast(source_directory)
    IN  IF Len(full_file_path) >= Len(parent)
           /\ SubSeq(full_file_path, 1, Len(parent)) = parent
        THEN SubSeq(full_file_path, Len(parent) + 1, Len(full_file_path))
        ELSE full_file_path

\* the orchestrator calls generate_file_result_from_analysis(analysis, file_name=...,
\* full_file_path=..., file_content=...)
StartFile ==
    /\ Idle
    /\ words_left > 0
    /\ \E path \in FullFilePaths, ws \in Contents(words_left - 1) :
          /\ file_name' = path
          /\ file_content' = Flatten(ws)
          /\ words_left' = words_left - Len(ws) - 1
    /\ pc' = "RAW"
    /\ call' = "generate_file_result_from_analysis"
    /\ raised' = "none"
    /\ hits0' = hits
    /\ misses0' = misses
    /\ file_result' = NoFileResult
    /\ filtered_list_no_comments' = <<>>
    /\ source_import_lines' = <<>>
    /\ idx' = 1
    /\ parsing_result' = NoParsingResult
    /\ UNCHANGED <<results, hits, misses, ignore_list>>

\* scanned_tokens, FileResult.create_file_result, _add_package_name_to_result
Tokenize ==
    /\ pc = "RAW"
    /\ file_result' =
          [unique_name |-> relative_file_path_to_analysis(file_name),
           module_name |-> "None",
           scanned_tokens |->
               preprocess_file_content_and_generate_token_list_by_mapping(
                   file_content, token_mappings),
           scanned_import_dependencies |-> <<>>]
    /\ pc' = "TOKENIZED"
    /\ UNCHANGED <<results, hits, misses, ignore_list, file_name, file_content,
                   filtered_list_no_comments, source_import_lines, idx,
                   parsing_result, call, raised, hits0, misses0, words_left>>

\* _add_imports_to_result: source_string_no_comments, filtered_list_no_comments
FilterComments ==
    /\ pc = "TOKENIZED"
    /\ filtered_list_no_comments' =
          preprocess_file_content_and_generate_token_list_by_mapping(
              filter_source_tokens_without_comments(
                  file_result.scanned_tokens, INLINE_COMMENT, BLOCK_COMMENT, BLOCK_COMMENT),
              token_mappings)
    /\ pc' = "COMMENT-FILTERED"
    /\ UNCHANGED <<results, hits, misses, ignore_list, file_name, file_content,
                   file_result, source_import_lines, idx, parsing_result, call,
                   raised, hits0, misses0, words_left>>

\* _add_imports_to_result: `for word in filtered_list_no_comments`
ReconstructLines ==
    /\ pc = "COMMENT-FILTERED"
    /\ source_import_lines' = SourceImportLines(filtered_list_no_comments)
    /\ idx' = 1
    /\ pc' = "LINES-EXTRACTED"
    /\ UNCHANGED <<results, hits, misses, ignore_list, file_name, file_content,
                   file_result, filtered_list_no_comments, parsing_result, call,
                   raised, hits0, misses0, words_left>>

\* a variant of ParseMiss in which the exception is counted and raised again
ParseMissEscapes(line) ==
    /\ misses' = misses + 1
    /\ parsing_result' = [NoParsingResult EXCEPT !.line = line]
    /\ raised' = "ParseException"
    /\ pc' = "IDLE"
    /\ UNCHANGED <<hits, file_result, idx>>

\* the parse of a line failed: the except branch
ParseMiss(line) ==
    /\ misses' = misses + 1
    /\ parsing_result' = [NoParsingResult EXCEPT !.line = line]
    /\ idx' = idx + 1
    /\ UNCHANGED <<hits, file_result, pc, raised>>

\* a variant of ParseHit that does not ask the ignore list
ParseHitUnfiltered(line, dependency) ==
    /\ hits' = hits + 1
    /\ parsing_result' = [line |-> line, matched |-> TRUE, dependency |-> dependency,
                          ignored |-> FALSE]
    /\ file_result' = [file_result EXCEPT !.scanned_import_dependencies =
                                              Append(@, dependency)]
    /\ idx' = idx + 1
    /\ UNCHANGED <<misses, pc, raised>>

\* a variant of ParseHit that counts the hit only for a dependency it appends
ParseHitCountedLate(line, dependency) ==
    LET ignored == is_dependency_in_ignore_list(dependency, ignore_list)
    IN  /\ hits' = IF ignored THEN hits ELSE hits + 1
        /\ parsing_result' = [line |-> line, matched |-> TRUE,
                              dependency |-> dependency, ignored |-> ignored]
        /\ file_result' =
              IF ignored THEN file_result
              ELSE [file_result EXCEPT !.scanned_import_dependencies =
                                            Append(@, dependency)]
        /\ idx' = idx + 1
        /\ UNCHANGED <<misses, pc, raised>>

\* the parse of a line succeeded: count the hit, then the ignore list decides
ParseHit(line, dependency) ==
    LET ignored == is_dependency_in_ignore_list(dependency, ignore_list)
    IN  /\ hits' = hits + 1
        /\ parsing_result' = [line |-> line, matched |-> TRUE,
                              dependency |-> dependency, ignored |-> ignored]
        /\ file_result' =
              IF ignored THEN file_result
              ELSE [file_result EXCEPT !.scanned_import_dependencies =
                                            Append(@, dependency)]
        /\ idx' = idx + 1
        /\ UNCHANGED <<misses, pc, raised>>

\* _add_imports_to_result: one iteration of `for line in source_import_lines`
MatchLine ==
    /\ pc = "LINES-EXTRACTED"
    /\ idx <= Len(source_import_lines)
    /\ LET line == source_import_lines[idx]
           r == ParseString(line)
       IN  IF r.matched THEN ParseHit(line, r.dependency) ELSE ParseMiss(line)
    /\ UNCHANGED <<results, ignore_list, file_name, file_content,
                   filtered_list_no_comments, source_import_lines, call, hits0,
                   misses0, words_left>>

\* _add_imports_to_result returns: the loop is over
EndExtraction ==
    /\ pc = "LINES-EXTRACTED"
    /\ idx > Len(source_import_lines)
    /\ pc' = "DEPENDENCIES-RESOLVED"
    /\ UNCHANGED <<results, hits, misses, ignore_list, file_name, file_content,
                   file_result, filtered_list_no_comments, source_import_lines, idx,
                   parsing_result, call, raised, hits0, misses0, words_left>>

\* a variant of Registered that keeps no other entry
RegisteredAlone(mapping, result) ==
    [n \in {result.unique_name} |-> result]

\* self._results[file_result.unique_name] = file_result
Registered(mapping, result) ==
    [n \in DOMAIN mapping \cup {result.unique_name} |->
        IF n = result.unique_name THEN result ELSE mapping[n]]

Register ==
    /\ pc = "DEPENDENCIES-RESOLVED"
    /\ results' = Registered(results, file_result)
    /\ pc' = "REGISTERED"
    /\ UNCHANGED <<hits, misses, ignore_list, file_name, file_content, file_result,
                   filtered_list_no_comments, source_import_lines, idx,
                   parsing_result, call, raised, hits0, misses0, words_left>>

----------------------------------------------------------------------------
(* The other operations of the parser. *)

\* a variant of NotImplemented that returns nothing instead of raising
ReturnsNothing(operation) ==
    /\ call' = operation
    /\ raised' = "none"
    /\ UNCHANGED <<results, hits, misses, ignore_list, pc, file_name, file_content,
                   file_result, filtered_list_no_comments, source_import_lines, idx,
                   parsing_result, hits0, misses0, words_left>>

\* raise NotImplementedError(...)
NotImplemented(operation) ==
    /\ call' = operation
    /\ raised' = "NotImplementedError"
    /\ UNCHANGED <<results, hits, misses, ignore_list, pc, file_name, file_content,
                   file_result, filtered_list_no_comments, source_import_lines, idx,
                   parsing_result, hits0, misses0, words_left>>

generate_entity_results_from_analysis ==
    /\ Idle
    /\ NotImplemented("generate_entity_results_from_analysis")

create_unique_entity_name ==
    /\ Idle
    /\ \E entity \in Entities : NotImplemented("create_unique_entity_name")

\* pass
after_generated_file_results ==
    /\ Idle
    /\ call' = "after_generated_file_results"
    /\ raised' = "none"
    /\ UNCHANGED <<results, hits, misses, ignore_list, pc, file_name, file_content,
                   file_result, filtered_list_no_comments, source_import_lines, idx,
                   parsing_result, hits0, misses0, words_left>>

----------------------------------------------------------------------------

Next ==
    \/ StartFile
    \/ Tokenize
    \/ FilterComments
    \/ ReconstructLines
    \/ MatchLine
    \/ EndExtraction
    \/ Register
    \/ generate_entity_results_from_analysis
    \/ create_unique_entity_name
    \/ after_generated_file_results

Spec == Init /\ [][Next]_vars

----------------------------------------------------------------------------
(* Notions the properties are stated with. *)

Dependencies == file_result.scanned_import_dependencies

\* the blank-separated tokens of a line
LineTokens(line) == SplitFrom(line, 1, EMPTY, <<>>)

RECURSIVE TerminatedLinesFrom(_, _, _, _)
\* the lines of a token stream that a newline token ends, blanks between their tokens
TerminatedLinesFrom(words, k, current, lines) ==
    IF k > Len(words) THEN lines
    ELSE IF words[k] = NEWLINE
         THEN TerminatedLinesFrom(words, k + 1, <<>>, Append(lines, JoinWords(current)))
         ELSE TerminatedLinesFrom(words, k + 1, Append(current, words[k]), lines)

TerminatedLines(words) == TerminatedLinesFrom(words, 1, <<>>, <<>>)

RECURSIVE UnterminatedLineFrom(_, _, _)
\* what follows the last newline token of a token stream
UnterminatedLineFrom(words, k, current) ==
    IF k > Len(words) THEN JoinWords(current)
    ELSE IF words[k] = NEWLINE
         THEN UnterminatedLineFrom(words, k + 1, <<>>)
         ELSE UnterminatedLineFrom(words, k + 1, Append(current, words[k]))

UnterminatedLine(words) == UnterminatedLineFrom(words, 1, <<>>)

\* the position of the first occurrence of x in a list that holds it
FirstIndex(x, list) == CHOOSE k \in 1..Len(list) :
                           list[k] = x /\ \A j \in 1..(k - 1) : list[j] # x

RECURSIVE CommentMaskFrom(_, _, _, _)
\* for every character of a content, whether it is inside a comment: from "#" to
\* the end of the line, or from a block marker to the next block marker
CommentMaskFrom(s, i, mode, mask) ==
    IF i > Len(s) THEN mask
    ELSE LET marker == i + 2 <= Len(s) /\ SubSeq(s, i, i + 2) = BLOCK_COMMENT
             inside == mask \o <<TRUE>>
             marked == mask \o <<TRUE, TRUE, TRUE>>
         IN  CASE mode = "inline" ->
                    IF s[i] = "\n" THEN CommentMaskFrom(s, i + 1, "code", mask \o <<FALSE>>)
                    ELSE CommentMaskFrom(s, i + 1, "inline", inside)
               [] mode = "block" ->
                    IF marker THEN CommentMaskFrom(s, i + 3, "code", marked)
                    ELSE CommentMaskFrom(s, i + 1, "block", inside)
               [] OTHER ->
                    IF marker THEN CommentMaskFrom(s, i + 3, "block", marked)
                    ELSE IF <<s[i]>> = INLINE_COMMENT
                         THEN CommentMaskFrom(s, i + 1, "inline", inside)
                         ELSE CommentMaskFrom(s, i + 1, "code", mask \o <<FALSE>>)

CommentMask(s) == CommentMaskFrom(s, 1, "code", <<>>)

\* the content holds `import`, and only inside comments
ImportsOnlyInComments(s) ==
    /\ Contains(s, IMPORT)
    /\ \A i \in 1..(Len(s) - Len(IMPORT) + 1) :
          SubSeq(s, i, i + Len(IMPORT) - 1) = IMPORT => CommentMask(s)[i]

\* the lines have been extracted from the file in progress
LinesExtracted == pc \in {"LINES-EXTRACTED", "DEPENDENCIES-RESOLVED", "REGISTERED"}

\* import extraction has finished for the file in progress
ExtractionDone == pc \in {"DEPENDENCIES-RESOLVED", "REGISTERED"}

\* a file is being processed
InProgress == pc \notin {"IDLE", "REGISTERED"}

\* the step at hand is the loop's iteration over the retained line at idx
AtLine == pc = "LINES-EXTRACTED" /\ idx <= Len(source_import_lines)

\* the guard of one of the steps of the file in progress holds
CanGoOn ==
    \/ pc \in {"RAW", "TOKENIZED", "COMMENT-FILTERED", "DEPENDENCIES-RESOLVED"}
    \/ pc = "LINES-EXTRACTED" /\ idx \in 1..(Len(source_import_lines) + 1)

Rank(p) ==
    CASE p = "IDLE" -> 0
      [] p = "RAW" -> 1
      [] p = "TOKENIZED" -> 2
      [] p = "COMMENT-FILTERED" -> 3
      [] p = "LINES-EXTRACTED" -> 4
      [] p = "DEPENDENCIES-RESOLVED" -> 5
      [] p = "REGISTERED" -> 6

EntityOperations ==
    {"generate_entity_results_from_analysis", "create_unique_entity_name"}

\* the retained lines among the first n whose dependency the ignore list suppressed
Suppressed(n) ==
    { k \in 1..n :
        LET r == ParseString(source_import_lines[k])
        IN  r.matched /\ is_dependency_in_ignore_list(r.dependency, ignore_list) }

----------------------------------------------------------------------------
(* Properties. *)

\* C1: for a retained line the grammar matches, the dependency extracted is the
\* first token after the `import` or `from` keyword the line starts with, a name,
\* and it is what is appended; it never runs on into a trailing `import` keyword.
C1_FirstNameAfterKeyword ==
    parsing_result.matched =>
        LET tokens == LineTokens(parsing_result.line)
        IN  /\ Len(tokens) >= 2
            /\ tokens[1] \in {IMPORT, FROM}
            /\ parsing_result.dependency = tokens[2]
            /\ \A i \in 1..Len(tokens[2]) : tokens[2][i] \in valid_name_chars
            /\ ~parsing_result.ignored =>
                   /\ Dependencies # <<>>
                   /\ Dependencies[Len(Dependencies)] = tokens[2]

\* C1: `from a.b import x` was matched and a.b is the dependency
C1_Witness ==
    /\ parsing_result.matched
    /\ parsing_result.line =
           FROM \o BLANK \o <<"a", ".", "b">> \o BLANK \o IMPORT \o BLANK \o <<"x">>
    /\ Dependencies = << <<"a", ".", "b">> >>

\* C2: when `import` occurs in a file only inside comments (inline or block), no
\* line is retained, and the file yields no dependency, no hit and no miss.
C2_CommentExclusion ==
    (LinesExtracted /\ ImportsOnlyInComments(file_content)) =>
        /\ source_import_lines = <<>>
        /\ Dependencies = <<>>
        /\ hits = hits0
        /\ misses = misses0

\* C3: no dependency of a FileResult matches the ignore list, and the iteration
\* over a line whose dependency matches it counts a hit, no miss, and appends nothing.
C3_IgnoreFiltering ==
    /\ [](\A k \in 1..Len(Dependencies) :
             ~is_dependency_in_ignore_list(Dependencies[k], ignore_list))
    /\ [](\A n \in DOMAIN results :
             \A k \in 1..Len(results[n].scanned_import_dependencies) :
                 ~is_dependency_in_ignore_list(
                      results[n].scanned_import_dependencies[k], ignore_list))
    /\ [][(/\ AtLine
           /\ ParseString(source_import_lines[idx]).matched
           /\ is_dependency_in_ignore_list(
                  ParseString(source_import_lines[idx]).dependency, ignore_list))
          => (/\ hits' = hits + 1
              /\ misses' = misses
              /\ Dependencies' = Dependencies)]_vars

\* C3: a line matched, its dependency was suppressed, the hit is counted
C3_Witness ==
    /\ ExtractionDone
    /\ parsing_result.matched
    /\ parsing_result.ignored
    /\ Dependencies = <<>>
    /\ hits = hits0 + 1
    /\ misses = misses0

\* C4: the iteration over a retained line the grammar does not match counts one
\* miss, appends nothing, lets no exception escape and goes on to the next line;
\* extraction ends only when every retained line has been submitted.
C4_RecoverableMiss ==
    /\ [][(AtLine /\ ~ParseString(source_import_lines[idx]).matched)
          => (/\ misses' = misses + 1
              /\ hits' = hits
              /\ Dependencies' = Dependencies
              /\ raised' = "none"
              /\ pc' = "LINES-EXTRACTED"
              /\ idx' = idx + 1
              /\ source_import_lines' = source_import_lines)]_vars
    /\ [](ExtractionDone => idx = Len(source_import_lines) + 1)
    /\ []((ExtractionDone /\ call = "generate_file_result_from_analysis")
             => raised = "none")

\* C4: a line was a miss and the line after it was still matched
C4_Witness ==
    /\ pc = "REGISTERED"
    /\ call = "generate_file_result_from_analysis"
    /\ raised = "none"
    /\ Len(source_import_lines) = 2
    /\ ~ParseString(source_import_lines[1]).matched
    /\ parsing_result.matched
    /\ parsing_result.line = source_import_lines[2]
    /\ misses = misses0 + 1
    /\ hits = hits0 + 1

\* C5: the retained lines hold no line twice and are in the order of their first
\* occurrence among the lines of the filtered stream.
C5_Deduplication ==
    LinesExtracted =>
        LET all == TerminatedLines(filtered_list_no_comments)
        IN  /\ \A i, j \in 1..Len(source_import_lines) :
                   i # j => source_import_lines[i] # source_import_lines[j]
            /\ \A i \in 1..Len(source_import_lines) : InList(source_import_lines[i], all)
            /\ \A i, j \in 1..Len(source_import_lines) :
                   i < j => FirstIndex(source_import_lines[i], all)
                                < FirstIndex(source_import_lines[j], all)

\* C5: the filtered stream holds an import line twice, and it is retained once
C5_Witness ==
    /\ LinesExtracted
    /\ LET all == TerminatedLines(filtered_list_no_comments)
       IN  \E i, j \in 1..Len(all) :
               i < j /\ all[i] = all[j] /\ Contains(all[i], IMPORT)
    /\ Len(source_import_lines) = 1

\* C6: a call of an entity-level operation raises NotImplementedError and leaves
\* the results mapping and the counters as they are.
C6_EntityOperationsUnsupported ==
    /\ [][(call' \in EntityOperations /\ (call' # call \/ raised' # raised))
          => (/\ raised' = "NotImplementedError"
              /\ results' = results
              /\ hits' = hits
              /\ misses' = misses)]_vars
    /\ [](call \in EntityOperations => raised = "NotImplementedError")
    /\ [](call \notin EntityOperations => raised = "none")

\* C6: an entity-level operation was called on a parser that holds a result and counts
C6_Witness ==
    /\ call = "create_unique_entity_name"
    /\ raised = "NotImplementedError"
    /\ DOMAIN results # {}
    /\ hits > 0
    /\ misses > 0

C8_StatisticsAccounting ==
    /\ [](LinesExtracted =>
             /\ (hits - hits0) + (misses - misses0) = idx - 1
             /\ hits - hits0 = Len(Dependencies) + Cardinality(Suppressed(idx - 1)))
    /\ [](ExtractionDone =>
             (hits - hits0) + (misses - misses0) = Len(source_import_lines))
    /\ [][/\ hits' >= hits
          /\ misses' >= misses
          /\ AtLine => \/ hits' = hits + 1 /\ misses' = misses
                       \/ hits' = hits /\ misses' = misses + 1
          /\ ~AtLine => hits' = hits /\ misses' = misses]_vars

\* C8: a file with a line whose dependency is appended and one it is suppressed for
C8_Witness ==
    /\ ExtractionDone
    /\ Len(source_import_lines) = 2
    /\ Len(Dependencies) = 1
    /\ Cardinality(Suppressed(2)) = 1
    /\ hits = hits0 + 2
    /\ misses = misses0

\* C9: a file goes through its stages in order, one at a time; the results mapping
\* changes only when the file is registered, after extraction, under its unique
\* name and with the other keys as they were; a file in progress can always go on.
C9_StagesInOrder ==
    /\ [][pc' # pc => \/ Rank(pc') = Rank(pc) + 1
                      \/ pc = "REGISTERED" /\ pc' = "RAW"]_vars
    /\ [][results' # results => pc = "DEPENDENCIES-RESOLVED" /\ pc' = "REGISTERED"]_vars
    /\ [][(pc' = "REGISTERED" /\ pc # "REGISTERED") =>
              /\ idx > Len(source_import_lines)
              /\ DOMAIN results' = DOMAIN results \cup {file_result.unique_name}
              /\ results'[file_result.unique_name] = file_result
              /\ \A n \in DOMAIN results :
                     n # file_result.unique_name => results'[n] = results[n]]_vars
    /\ [](InProgress => raised = "none" /\ CanGoOn)

\* C9: a file with a miss is registered beside the result of another file
C9_Witness ==
    /\ pc = "REGISTERED"
    /\ misses > misses0
    /\ Cardinality(DOMAIN results) = 2
    /\ results[file_result.unique_name] = file_result

\* C10: every retained line is a line that a newline token ends: what follows the
\* last newline token of the filtered stream is not retained.
C10_UnterminatedLineDropped ==
    LinesExtracted =>
        \A i \in 1..Len(source_import_lines) :
            InList(source_import_lines[i], TerminatedLines(filtered_list_no_comments))

\* C10: a file ends in an import line without a newline, and yields nothing
C10_Witness ==
    /\ pc = "REGISTERED"
    /\ ParseString(UnterminatedLine(filtered_list_no_comments)).matched
    /\ source_import_lines = <<>>
    /\ Dependencies = <<>>
    /\ hits = hits0
    /\ misses = misses0

====
